---------------------------- MODULE Spec2Model ----------------------------
(***************************************************************************)
(* A model of yama::matrix3x3_t<T> (include/yama/matrix3x3.hpp).           *)
(*                                                                         *)
(* A scalar of type T is modelled as an exact extended rational <<n, d>>   *)
(* in lowest terms: d > 0 is the finite value n/d, <<1,0>> is +infinity,   *)
(* <<-1,0>> is -infinity and <<0,0>> is NaN.  The arithmetic follows IEEE  *)
(* 754 on these values (NaN propagates, inf - inf and 0 * inf are NaN,     *)
(* x / 0 is an infinity or NaN); rounding and the sign of zero are not     *)
(* modelled.                                                               *)
(*                                                                         *)
(* A matrix is the tuple of its nine members in declaration order          *)
(* (m00, m10, m20, m01, m11, m21, m02, m12, m22): element k of the tuple   *)
(* (counting from 1) is data()[k - 1].                                     *)
(***************************************************************************)
EXTENDS Integers, Sequences, FiniteSets, TLC

(***************************************************************************)
(* Bounds of the model.                                                    *)
(***************************************************************************)
\* largest magnitude of a scalar input
MaxVal == 1
\* number of operations applied to the matrix object after construction
MaxOps == 1
\* largest index handed to an accessor
MaxIndex == 10
\* largest numerator and denominator of an element the object may hold
MaxMag == 200
\* number of bits in the significand of value_type where rounding is modelled
Precision == 4

(***************************************************************************)
(* Scalars: value_type arithmetic.                                         *)
(***************************************************************************)
NaN == <<0, 0>>
PInf == <<1, 0>>
NInf == <<0 - 1, 0>>
Num(k) == <<k, 1>>

Sgn(k) == IF k > 0 THEN 1 ELSE IF k < 0 THEN 0 - 1 ELSE 0
AbsInt(k) == IF k < 0 THEN 0 - k ELSE k

RECURSIVE GCD(_, _)
GCD(a, b) == IF b = 0 THEN a ELSE GCD(b, a % b)

\* the finite value n/d, d > 0, in lowest terms
Rat(n, d) == LET g == GCD(AbsInt(n), d) IN <<n \div g, d \div g>>

\* std::isfinite on a scalar
IsFiniteS(x) == x[2] > 0

Neg(x) == <<0 - x[1], x[2]>>

Add(x, y) ==
    IF IsFiniteS(x) /\ IsFiniteS(y)
    THEN LET g == GCD(x[2], y[2])
         IN  Rat(x[1] * (y[2] \div g) + y[1] * (x[2] \div g), (x[2] \div g) * y[2])
    ELSE IF x = NaN \/ y = NaN THEN NaN
    ELSE IF IsFiniteS(x) THEN y
    ELSE IF IsFiniteS(y) THEN x
    ELSE IF x = y THEN x ELSE NaN

Sub(x, y) == Add(x, Neg(y))

Mul(x, y) ==
    IF IsFiniteS(x) /\ IsFiniteS(y)
    THEN LET g == GCD(AbsInt(x[1]), y[2])
             h == GCD(AbsInt(y[1]), x[2])
         IN  Rat((x[1] \div g) * (y[1] \div h), (x[2] \div h) * (y[2] \div g))
    ELSE IF x = NaN \/ y = NaN THEN NaN
    ELSE IF Sgn(x[1]) * Sgn(y[1]) = 0 THEN NaN
    ELSE <<Sgn(x[1]) * Sgn(y[1]), 0>>

Div(x, y) ==
    IF x = NaN \/ y = NaN THEN NaN
    ELSE IF IsFiniteS(y) /\ y[1] # 0
         THEN IF IsFiniteS(x)
              THEN LET g == GCD(AbsInt(x[1]), AbsInt(y[1]))
                       h == GCD(y[2], x[2])
                   IN  Rat((x[1] \div g) * (y[2] \div h) * Sgn(y[1]),
                           (x[2] \div h) * (AbsInt(y[1]) \div g))
              ELSE <<Sgn(x[1]) * Sgn(y[1]), 0>>
    ELSE IF IsFiniteS(y)
         THEN IF x[1] = 0 THEN NaN ELSE <<Sgn(x[1]), 0>>
    ELSE IF IsFiniteS(x) THEN Num(0) ELSE NaN

\* operator== and operator!= on scalars: NaN compares unequal to everything
EqS(x, y) == x # NaN /\ y # NaN /\ x = y
NeS(x, y) == ~EqS(x, y)

\* x < y on scalars (false when either is NaN)
LtS(x, y) ==
    /\ x # NaN /\ y # NaN
    /\ IF IsFiniteS(x) /\ IsFiniteS(y)
       THEN LET fx == x[1] \div x[2]
                fy == y[1] \div y[2]
            IN  \/ fx < fy
                \/ fx = fy /\ (x[1] % x[2]) * y[2] < (y[1] % y[2]) * x[2]
       ELSE IF IsFiniteS(x) THEN y = PInf
       ELSE IF IsFiniteS(y) THEN x = NInf
       ELSE x = NInf /\ y = PInf

AbsS(x) == <<AbsInt(x[1]), x[2]>>

sq(x) == Mul(x, x)


(***************************************************************************)
(* Collaborators: constants_t<T>::EPSILON(), close() on scalars and the   *)
(* 3-vector type.  A vector is the tuple <<x, y, z>>.                      *)
(***************************************************************************)
EPSILON == Rat(1, 100000)

close(a, b, epsilon) == LtS(AbsS(Sub(a, b)), epsilon)

closeV(a, b) == \A k \in 1..3 : close(a[k], b[k], EPSILON)

coord(x, y, z) == <<x, y, z>>

cross(a, b) ==
    coord(Sub(Mul(a[2], b[3]), Mul(a[3], b[2])),
          Sub(Mul(a[3], b[1]), Mul(a[1], b[3])),
          Sub(Mul(a[1], b[2]), Mul(a[2], b[1])))

dot(a, b) == Add(Add(Mul(a[1], b[1]), Mul(a[2], b[2])), Mul(a[3], b[3]))

(***************************************************************************)
(* The nine members, by name.                                              *)
(***************************************************************************)
m00(a) == a[1]
m10(a) == a[2]
m20(a) == a[3]
m01(a) == a[4]
m11(a) == a[5]
m21(a) == a[6]
m02(a) == a[7]
m12(a) == a[8]
m22(a) == a[9]

rows_count == 3
columns_count == 3
value_count == 9

(***************************************************************************)
(* Named constructors.                                                     *)
(***************************************************************************)
columns(cr00, cr01, cr02, cr10, cr11, cr12, cr20, cr21, cr22) ==
    << cr00, cr01, cr02,
       cr10, cr11, cr12,
       cr20, cr21, cr22 >>

\* rows that stores its arguments in the order given
rows_NoTranspose(rc00, rc01, rc02, rc10, rc11, rc12, rc20, rc21, rc22) ==
    << rc00, rc01, rc02,
       rc10, rc11, rc12,
       rc20, rc21, rc22 >>

rows(rc00, rc01, rc02, rc10, rc11, rc12, rc20, rc21, rc22) ==
    << rc00, rc10, rc20,
       rc01, rc11, rc21,
       rc02, rc12, rc22 >>

uniform(s) == columns(s, s, s, s, s, s, s, s, s)

zero == uniform(Num(0))

identity ==
    columns(Num(1), Num(0), Num(0),
            Num(0), Num(1), Num(0),
            Num(0), Num(0), Num(1))

\* from_ptr on a non-null buffer of nine scalars
from_ptr(ptr) ==
    columns(ptr[1], ptr[2], ptr[3],
            ptr[4], ptr[5], ptr[6],
            ptr[7], ptr[8], ptr[9])

(***************************************************************************)
(* Free functions.                                                         *)
(***************************************************************************)
\* operator==(a, b)
EqM(a, b) ==
    /\ EqS(m00(a), m00(b)) /\ EqS(m10(a), m10(b)) /\ EqS(m20(a), m20(b))
    /\ EqS(m01(a), m01(b)) /\ EqS(m11(a), m11(b)) /\ EqS(m21(a), m21(b))
    /\ EqS(m02(a), m02(b)) /\ EqS(m12(a), m12(b)) /\ EqS(m22(a), m22(b))

\* close(a, b, epsilon) on matrices
closeM(a, b, epsilon) ==
    /\ close(m00(a), m00(b), epsilon) /\ close(m10(a), m10(b), epsilon) /\ close(m20(a), m20(b), epsilon)
    /\ close(m01(a), m01(b), epsilon) /\ close(m11(a), m11(b), epsilon) /\ close(m21(a), m21(b), epsilon)
    /\ close(m02(a), m02(b), epsilon) /\ close(m12(a), m12(b), epsilon) /\ close(m22(a), m22(b), epsilon)

\* isfinite(a)
isfinite(a) ==
    /\ IsFiniteS(m00(a)) /\ IsFiniteS(m10(a)) /\ IsFiniteS(m20(a))
    /\ IsFiniteS(m01(a)) /\ IsFiniteS(m11(a)) /\ IsFiniteS(m21(a))
    /\ IsFiniteS(m02(a)) /\ IsFiniteS(m12(a)) /\ IsFiniteS(m22(a))

\* x*y + z*w + u*v, evaluated left to right
Dot3(x, y, z, w, u, v) == Add(Add(Mul(x, y), Mul(z, w)), Mul(u, v))

\* a product whose first element pairs m01(a) with m11(b)
MulMM_WrongPairing(a, b) ==
    columns(
        Dot3(m00(a), m00(b), m01(a), m11(b), m02(a), m20(b)),
        Dot3(m10(a), m00(b), m11(a), m10(b), m12(a), m20(b)),
        Dot3(m20(a), m00(b), m21(a), m10(b), m22(a), m20(b)),
        Dot3(m00(a), m01(b), m01(a), m11(b), m02(a), m21(b)),
        Dot3(m10(a), m01(b), m11(a), m11(b), m12(a), m21(b)),
        Dot3(m20(a), m01(b), m21(a), m11(b), m22(a), m21(b)),
        Dot3(m00(a), m02(b), m01(a), m12(b), m02(a), m22(b)),
        Dot3(m10(a), m02(b), m11(a), m12(b), m12(a), m22(b)),
        Dot3(m20(a), m02(b), m21(a), m12(b), m22(a), m22(b)))

\* operator*(a, b), matrix product
MulMM(a, b) ==
    columns(
        Dot3(m00(a), m00(b), m01(a), m10(b), m02(a), m20(b)),
        Dot3(m10(a), m00(b), m11(a), m10(b), m12(a), m20(b)),
        Dot3(m20(a), m00(b), m21(a), m10(b), m22(a), m20(b)),
        Dot3(m00(a), m01(b), m01(a), m11(b), m02(a), m21(b)),
        Dot3(m10(a), m01(b), m11(a), m11(b), m12(a), m21(b)),
        Dot3(m20(a), m01(b), m21(a), m11(b), m22(a), m21(b)),
        Dot3(m00(a), m02(b), m01(a), m12(b), m02(a), m22(b)),
        Dot3(m10(a), m02(b), m11(a), m12(b), m12(a), m22(b)),
        Dot3(m20(a), m02(b), m21(a), m12(b), m22(a), m22(b)))

\* operator*(a, s), matrix times scalar
MulMS(a, s) ==
    columns(Mul(m00(a), s), Mul(m10(a), s), Mul(m20(a), s),
            Mul(m01(a), s), Mul(m11(a), s), Mul(m21(a), s),
            Mul(m02(a), s), Mul(m12(a), s), Mul(m22(a), s))

\* x*y*z
Mul3(x, y, z) == Mul(Mul(x, y), z)

\* determinant()
determinant(a) ==
    Add(Sub(Sub(Add(Add(Neg(Mul3(m02(a), m11(a), m20(a))),
                        Mul3(m01(a), m12(a), m20(a))),
                    Mul3(m02(a), m10(a), m21(a))),
                Mul3(m00(a), m12(a), m21(a))),
            Mul3(m01(a), m10(a), m22(a))),
        Mul3(m00(a), m11(a), m22(a)))

\* cofactors whose second element has its two products exchanged
Cofactors_WrongSign(a) ==
    columns(
        Add(Neg(Mul(m12(a), m21(a))), Mul(m11(a), m22(a))),
        Sub(Mul(m10(a), m22(a)), Mul(m12(a), m20(a))),
        Add(Neg(Mul(m11(a), m20(a))), Mul(m10(a), m21(a))),
        Sub(Mul(m02(a), m21(a)), Mul(m01(a), m22(a))),
        Add(Neg(Mul(m02(a), m20(a))), Mul(m00(a), m22(a))),
        Sub(Mul(m01(a), m20(a)), Mul(m00(a), m21(a))),
        Add(Neg(Mul(m02(a), m11(a))), Mul(m01(a), m12(a))),
        Sub(Mul(m02(a), m10(a)), Mul(m00(a), m12(a))),
        Add(Neg(Mul(m01(a), m10(a))), Mul(m00(a), m11(a))))

\* the numerators of inverse(a, out_determinant), before the division
Cofactors(a) ==
    columns(
        Add(Neg(Mul(m12(a), m21(a))), Mul(m11(a), m22(a))),
        Sub(Mul(m12(a), m20(a)), Mul(m10(a), m22(a))),
        Add(Neg(Mul(m11(a), m20(a))), Mul(m10(a), m21(a))),
        Sub(Mul(m02(a), m21(a)), Mul(m01(a), m22(a))),
        Add(Neg(Mul(m02(a), m20(a))), Mul(m00(a), m22(a))),
        Sub(Mul(m01(a), m20(a)), Mul(m00(a), m21(a))),
        Add(Neg(Mul(m02(a), m11(a))), Mul(m01(a), m12(a))),
        Sub(Mul(m02(a), m10(a)), Mul(m00(a), m12(a))),
        Add(Neg(Mul(m01(a), m10(a))), Mul(m00(a), m11(a))))

\* inverse(a, out_determinant): the returned matrix and the reported determinant
inverse(a) ==
    LET out_determinant == determinant(a)
        c == Cofactors(a)
    IN  [ m |-> columns(
                  Div(c[1], out_determinant), Div(c[2], out_determinant), Div(c[3], out_determinant),
                  Div(c[4], out_determinant), Div(c[5], out_determinant), Div(c[6], out_determinant),
                  Div(c[7], out_determinant), Div(c[8], out_determinant), Div(c[9], out_determinant)),
          det |-> out_determinant ]

(***************************************************************************)
(* Mutating members, as functions from the value of *this (and the         *)
(* operands) to the value of *this afterwards.                             *)
(***************************************************************************)
\* operator-() const
Negate(this) ==
    columns(Neg(m00(this)), Neg(m10(this)), Neg(m20(this)),
            Neg(m01(this)), Neg(m11(this)), Neg(m21(this)),
            Neg(m02(this)), Neg(m12(this)), Neg(m22(this)))

\* operator+=(b)
AddAssign(this, b) ==
    columns(Add(m00(this), m00(b)), Add(m10(this), m10(b)), Add(m20(this), m20(b)),
            Add(m01(this), m01(b)), Add(m11(this), m11(b)), Add(m21(this), m21(b)),
            Add(m02(this), m02(b)), Add(m12(this), m12(b)), Add(m22(this), m22(b)))

\* operator-=(b)
SubAssign(this, b) ==
    columns(Sub(m00(this), m00(b)), Sub(m10(this), m10(b)), Sub(m20(this), m20(b)),
            Sub(m01(this), m01(b)), Sub(m11(this), m11(b)), Sub(m21(this), m21(b)),
            Sub(m02(this), m02(b)), Sub(m12(this), m12(b)), Sub(m22(this), m22(b)))

\* operator*=(s)
MulAssignS(this, s) ==
    columns(Mul(m00(this), s), Mul(m10(this), s), Mul(m20(this), s),
            Mul(m01(this), s), Mul(m11(this), s), Mul(m21(this), s),
            Mul(m02(this), s), Mul(m12(this), s), Mul(m22(this), s))

\* operator/=(s): the warning it raises, and the value afterwards
DivAssignSDiag(s) == IF NeS(s, Num(0)) THEN {} ELSE {"warn"}

DivAssignS(this, s) ==
    columns(Div(m00(this), s), Div(m10(this), s), Div(m20(this), s),
            Div(m01(this), s), Div(m11(this), s), Div(m21(this), s),
            Div(m02(this), s), Div(m12(this), s), Div(m22(this), s))

\* what the reference b denotes while *this holds the value t
Deref(t, b, alias) == IF alias THEN t ELSE b

\* element k (in storage order) of the product t * B
ProductElement(t, B, k) ==
    LET r == k % 3
        c == k \div 3
    IN  Dot3(t[r + 1], B[3 * c + 1], t[r + 4], B[3 * c + 2], t[r + 7], B[3 * c + 3])

\* a product that stores each element as soon as it is computed
MulAssignM_InPlace(this, b, alias) ==
    LET t1 == [this EXCEPT ![1] = ProductElement(this, Deref(this, b, alias), 0)]
        t2 == [t1 EXCEPT ![2] = ProductElement(t1, Deref(t1, b, alias), 1)]
        t3 == [t2 EXCEPT ![3] = ProductElement(t2, Deref(t2, b, alias), 2)]
        t4 == [t3 EXCEPT ![4] = ProductElement(t3, Deref(t3, b, alias), 3)]
        t5 == [t4 EXCEPT ![5] = ProductElement(t4, Deref(t4, b, alias), 4)]
        t6 == [t5 EXCEPT ![6] = ProductElement(t5, Deref(t5, b, alias), 5)]
        t7 == [t6 EXCEPT ![7] = ProductElement(t6, Deref(t6, b, alias), 6)]
        t8 == [t7 EXCEPT ![8] = ProductElement(t7, Deref(t7, b, alias), 7)]
    IN  [t8 EXCEPT ![9] = ProductElement(t8, Deref(t8, b, alias), 8)]

\* operator*=(b): b is a reference, alias says that it refers to *this.
\* The nine temporaries are computed first, the nine stores follow.
MulAssignM(this, b, alias) ==
    LET B == Deref(this, b, alias)
        c00 == Dot3(m00(this), m00(B), m01(this), m10(B), m02(this), m20(B))
        c10 == Dot3(m10(this), m00(B), m11(this), m10(B), m12(this), m20(B))
        c20 == Dot3(m20(this), m00(B), m21(this), m10(B), m22(this), m20(B))
        c01 == Dot3(m00(this), m01(B), m01(this), m11(B), m02(this), m21(B))
        c11 == Dot3(m10(this), m01(B), m11(this), m11(B), m12(this), m21(B))
        c21 == Dot3(m20(this), m01(B), m21(this), m11(B), m22(this), m21(B))
        c02 == Dot3(m00(this), m02(B), m01(this), m12(B), m02(this), m22(B))
        c12 == Dot3(m10(this), m02(B), m11(this), m12(B), m12(this), m22(B))
        c22 == Dot3(m20(this), m02(B), m21(this), m12(B), m22(this), m22(B))
    IN  columns(c00, c10, c20, c01, c11, c21, c02, c12, c22)

\* mul(b), element-wise
mul(this, b) ==
    columns(Mul(m00(this), m00(b)), Mul(m10(this), m10(b)), Mul(m20(this), m20(b)),
            Mul(m01(this), m01(b)), Mul(m11(this), m11(b)), Mul(m21(this), m21(b)),
            Mul(m02(this), m02(b)), Mul(m12(this), m12(b)), Mul(m22(this), m22(b)))

\* div(b), element-wise
div(this, b) ==
    columns(Div(m00(this), m00(b)), Div(m10(this), m10(b)), Div(m20(this), m20(b)),
            Div(m01(this), m01(b)), Div(m11(this), m11(b)), Div(m21(this), m21(b)),
            Div(m02(this), m02(b)), Div(m12(this), m12(b)), Div(m22(this), m22(b)))

\* a transpose that leaves out the swap of m21 and m12
transpose_TwoSwaps(this) ==
    columns(m00(this), m01(this), m02(this),
            m10(this), m11(this), m21(this),
            m20(this), m12(this), m22(this))

\* transpose(): std::swap(m10, m01); std::swap(m20, m02); std::swap(m21, m12)
transpose(this) ==
    columns(m00(this), m01(this), m02(this),
            m10(this), m11(this), m12(this),
            m20(this), m21(this), m22(this))

\* a member inverse that tests the determinant and leaves a singular matrix alone
inverseMember_Guarded(this) ==
    LET r == inverse(this)
    IN  IF EqS(r.det, Num(0)) THEN [m |-> this, det |-> r.det] ELSE r

\* inverse() member: the value of *this afterwards and the returned determinant
inverseMember(this) ==
    LET det == determinant(this)
        c00 == Add(Neg(Mul(m12(this), m21(this))), Mul(m11(this), m22(this)))
        c10 == Sub(Mul(m12(this), m20(this)), Mul(m10(this), m22(this)))
        c20 == Add(Neg(Mul(m11(this), m20(this))), Mul(m10(this), m21(this)))
        c01 == Sub(Mul(m02(this), m21(this)), Mul(m01(this), m22(this)))
        c11 == Add(Neg(Mul(m02(this), m20(this))), Mul(m00(this), m22(this)))
        c21 == Sub(Mul(m01(this), m20(this)), Mul(m00(this), m21(this)))
        c02 == Add(Neg(Mul(m02(this), m11(this))), Mul(m01(this), m12(this)))
        c12 == Sub(Mul(m02(this), m10(this)), Mul(m00(this), m12(this)))
        c22 == Add(Neg(Mul(m01(this), m10(this))), Mul(m00(this), m11(this)))
    IN  [ m |-> columns(Div(c00, det), Div(c10, det), Div(c20, det),
                        Div(c01, det), Div(c11, det), Div(c21, det),
                        Div(c02, det), Div(c12, det), Div(c22, det)),
          det |-> det ]

(***************************************************************************)
(* Element access.  A pointer into the matrix is modelled as its offset    *)
(* from data(), counted in scalars.                                        *)
(***************************************************************************)
\* an assertion that lets i = value_count through
atDiag_OffByOne(i) == IF i <= value_count THEN {} ELSE {"crit"}

\* the assertion of at(i) / operator[](i)
atDiag(i) == IF i < value_count THEN {} ELSE {"crit"}

\* the assertion of column(i)
columnDiag(i) == IF i < columns_count THEN {} ELSE {"crit"}

\* column(i): data() + rows_count * i
column(i) == rows_count * i

\* m(row, col) / operator()(row, col): the address column(col)[row]
mAddr(row, col) == column(col) + row

\* *(data() + k): an element of the object, or, outside the nine scalars,
\* whatever the memory there holds (g)
Load(this, k, g) == IF k < value_count THEN this[k + 1] ELSE g

\* *(data() + k) = x: a store outside the nine scalars leaves the object alone
Store(this, k, x) == IF k < value_count THEN [this EXCEPT ![k + 1] = x] ELSE this

\* m(row, col) / operator()(row, col)
m(this, row, col, g) == Load(this, mAddr(row, col), g)

\* row_vector(row)
row_vector(this, row, g) == coord(m(this, row, 0, g), m(this, row, 1, g), m(this, row, 2, g))

\* main_diagonal()
main_diagonal(this, g) == coord(m(this, 0, 0, g), m(this, 1, 1, g), m(this, 2, 2, g))

\* a view attached as if the columns were one scalar apart
column_vector_UnitStride(col) == [kind |-> "view", addr |-> col, from |-> col, val |-> <<>>]

\* column_vector(col): the vector attached to the storage at column(col)
column_vector(col) == [kind |-> "view", addr |-> column(col), from |-> col, val |-> <<>>]

\* the assertions of from_ptr, attach_to_ptr and attach_to_array
from_ptrDiag(ptr) == IF ptr # <<>> THEN {} ELSE {"crit"}
attach_to_ptrDiag(ptr) == IF ptr # <<>> THEN {} ELSE {"bad"}
attach_to_arrayDiag_Critical(ptr) == IF ptr # <<>> THEN {} ELSE {"crit"}
attach_to_arrayDiag(ptr) == IF ptr # <<>> THEN {} ELSE {"warn"}

(***************************************************************************)
(* Collaborators of the rotation constructors.  An angle is modelled by    *)
(* the point <<cos, sin>> of the unit circle it denotes; square roots are  *)
(* taken of squares of rationals only.                                     *)
(***************************************************************************)
IsSquareInt(k) == \E r \in 0..k : r * r = k
ISqrt(k) == CHOOSE r \in 0..k : r * r = k
IsSquare(x) == IsFiniteS(x) /\ x[1] >= 0 /\ IsSquareInt(x[1]) /\ IsSquareInt(x[2])
Sqrt(x) == <<ISqrt(x[1]), ISqrt(x[2])>>

length_sq(v) == dot(v, v)
length(v) == Sqrt(length_sq(v))
is_normalized(v) == close(length_sq(v), Num(1), EPSILON)
DivVS(v, s) == coord(Div(v[1], s), Div(v[2], s), Div(v[3], s))
normalize(v) == DivVS(v, length(v))
NegV(v) == coord(Neg(v[1]), Neg(v[2]), Neg(v[3]))
zeroV == coord(Num(0), Num(0), Num(0))

\* get_orthogonal() may return any of these
Orthogonals(v) ==
    { cross(v, e) : e \in { coord(Num(1), Num(0), Num(0)),
                            coord(Num(0), Num(1), Num(0)),
                            coord(Num(0), Num(0), Num(1)) } } \ { zeroV }

\* acos(d), std::cos and std::sin; acos is NaN outside [-1, 1]
acos(d) ==
    IF d = NaN \/ LtS(Num(1), AbsS(d)) THEN <<NaN, NaN>>
    ELSE <<d, Sqrt(Sub(Num(1), sq(d)))>>
cos(radians) == radians[1]
sin(radians) == radians[2]

(***************************************************************************)
(* Transforms.                                                             *)
(***************************************************************************)
scalingDiag(x, y, z) ==
    IF close(x, Num(0), EPSILON) \/ close(y, Num(0), EPSILON) \/ close(z, Num(0), EPSILON)
    THEN {"warn"} ELSE {}

\* scaling that answers a zero factor with the identity
scaling_ZeroRejected(x, y, z) ==
    IF close(x, Num(0), EPSILON) \/ close(y, Num(0), EPSILON) \/ close(z, Num(0), EPSILON)
    THEN identity
    ELSE columns(x, Num(0), Num(0),
                 Num(0), y, Num(0),
                 Num(0), Num(0), z)

scaling(x, y, z) ==
    columns(x, Num(0), Num(0),
            Num(0), y, Num(0),
            Num(0), Num(0), z)

\* scaling(const vector3_t<T>& s)
scaling_vector3Diag(s) == scalingDiag(s[1], s[2], s[3])
scaling_vector3(s) == scaling(s[1], s[2], s[3])

scaling_uniformDiag(s) == IF close(s, Num(0), EPSILON) THEN {"warn"} ELSE {}

scaling_uniform(s) ==
    columns(s, Num(0), Num(0),
            Num(0), s, Num(0),
            Num(0), Num(0), s)

rotation_naxisDiag(axis) == IF is_normalized(axis) THEN {} ELSE {"bad"}

rotation_naxis(axis, radians) ==
    LET c == cos(radians)
        s == sin(radians)
        c1 == Sub(Num(1), c)
        x == axis[1]
        y == axis[2]
        z == axis[3]
    IN  rows(
          Add(c, Mul(c1, sq(x))), Sub(Mul(Mul(c1, y), x), Mul(s, z)), Add(Mul(Mul(c1, z), x), Mul(s, y)),
          Add(Mul(Mul(c1, x), y), Mul(s, z)), Add(c, Mul(c1, sq(y))), Sub(Mul(Mul(c1, z), y), Mul(s, x)),
          Sub(Mul(Mul(c1, x), z), Mul(s, y)), Add(Mul(Mul(c1, y), z), Mul(s, x)), Add(c, Mul(c1, sq(z))))

rotation_vectorsDiag(src, target) ==
    (IF is_normalized(src) /\ is_normalized(target) THEN {} ELSE {"bad"})
    \cup (IF closeV(src, zeroV) \/ closeV(target, zeroV) THEN {"warn"} ELSE {})

\* rotation_vectors that answers opposite vectors with the point reflection
rotation_vectors_Reflect(src, target, orth) ==
    LET axis == cross(src, target)
        axis_length == length(axis)
    IN  IF LtS(EPSILON, axis_length)
        THEN rotation_naxis(DivVS(axis, axis_length), acos(dot(src, target)))
        ELSE IF closeV(src, target) THEN identity ELSE Negate(identity)

\* rotation_vectors(src, target); orth is what src.get_orthogonal() returns
rotation_vectors(src, target, orth) ==
    LET axis == cross(src, target)
        axis_length == length(axis)
    IN  IF LtS(EPSILON, axis_length)
        THEN LET naxis == DivVS(axis, axis_length)
                 angle == acos(dot(src, target))
             IN  rotation_naxis(naxis, angle)
        ELSE IF closeV(src, target)
        THEN identity
        ELSE LET o == normalize(orth)
                 two == Num(2)
                 one == Num(1)
             IN  rows(
                   Sub(Mul(two, sq(o[1])), one), Mul(Mul(two, o[2]), o[1]), Mul(Mul(two, o[3]), o[1]),
                   Mul(Mul(two, o[1]), o[2]), Sub(Mul(two, sq(o[2])), one), Mul(Mul(two, o[3]), o[2]),
                   Mul(Mul(two, o[1]), o[3]), Mul(Mul(two, o[2]), o[3]), Sub(Mul(two, sq(o[3])), one))

(***************************************************************************)
(* value_type arithmetic with rounding: every operation returns the        *)
(* value_type nearest to the exact result, ties going to the even          *)
(* significand.  A value_type has Precision significant bits; exponent     *)
(* range, overflow and underflow are not modelled.                         *)
(***************************************************************************)
RECURSIVE Pow2(_)
Pow2(k) == IF k = 0 THEN 1 ELSE 2 * Pow2(k - 1)

\* the exponent e with 2^(Precision-1) <= y / 2^e < 2^Precision, for y > 0
RECURSIVE Exponent(_)
Exponent(y) ==
    IF LtS(y, Num(Pow2(Precision - 1))) THEN Exponent(Mul(y, Num(2))) - 1
    ELSE IF LtS(y, Num(Pow2(Precision))) THEN 0
    ELSE Exponent(Div(y, Num(2))) + 1

\* 2^e as a scalar
Scale(e) == IF e >= 0 THEN Num(Pow2(e)) ELSE Rat(1, Pow2(0 - e))

\* the integer nearest to y >= 0, the even one of two equally near
NearestEven(y) ==
    LET f == y[1] \div y[2]
        r == y[1] % y[2]
    IN  IF 2 * r < y[2] THEN f
        ELSE IF 2 * r > y[2] THEN f + 1
        ELSE IF f % 2 = 0 THEN f ELSE f + 1

\* the value_type nearest to x
RoundT(x) ==
    IF ~IsFiniteS(x) \/ x[1] = 0 THEN x
    ELSE LET e == Exponent(AbsS(x))
             q == NearestEven(Div(AbsS(x), Scale(e)))
         IN  Mul(Num(Sgn(x[1]) * q), Scale(e))

AddT(x, y) == RoundT(Add(x, y))
SubT(x, y) == RoundT(Sub(x, y))
MulT(x, y) == RoundT(Mul(x, y))
sqT(x) == MulT(x, x)
cosT(radians) == RoundT(cos(radians))
sinT(radians) == RoundT(sin(radians))

\* the spacing of value_type just above 1
MachineEpsilon == Rat(1, Pow2(Precision - 1))

unit_x == coord(Num(1), Num(0), Num(0))

\* rotation_naxis with the sign of s*x wrong in row 1
rotation_naxisT_WrongSign(axis, radians) ==
    LET c == cosT(radians)
        s == sinT(radians)
        c1 == SubT(Num(1), c)
        x == axis[1]
        y == axis[2]
        z == axis[3]
    IN  rows(
          AddT(c, MulT(c1, sqT(x))), SubT(MulT(MulT(c1, y), x), MulT(s, z)), AddT(MulT(MulT(c1, z), x), MulT(s, y)),
          AddT(MulT(MulT(c1, x), y), MulT(s, z)), AddT(c, MulT(c1, sqT(y))), AddT(MulT(MulT(c1, z), y), MulT(s, x)),
          SubT(MulT(MulT(c1, x), z), MulT(s, y)), AddT(MulT(MulT(c1, y), z), MulT(s, x)), AddT(c, MulT(c1, sqT(z))))

\* rotation_naxis(axis, radians) as value_type evaluates it
rotation_naxisT(axis, radians) ==
    LET c == cosT(radians)
        s == sinT(radians)
        c1 == SubT(Num(1), c)
        x == axis[1]
        y == axis[2]
        z == axis[3]
    IN  rows(
          AddT(c, MulT(c1, sqT(x))), SubT(MulT(MulT(c1, y), x), MulT(s, z)), AddT(MulT(MulT(c1, z), x), MulT(s, y)),
          AddT(MulT(MulT(c1, x), y), MulT(s, z)), AddT(c, MulT(c1, sqT(y))), SubT(MulT(MulT(c1, z), y), MulT(s, x)),
          SubT(MulT(MulT(c1, x), z), MulT(s, y)), AddT(MulT(MulT(c1, y), z), MulT(s, x)), AddT(c, MulT(c1, sqT(z))))

\* rotation_axis(axis, radians)
rotation_axis(axis, radians) ==
    LET naxis == normalize(axis)
    IN  rotation_naxisT(naxis, radians)

rotation_x(radians) ==
    LET c == cosT(radians)
        s == sinT(radians)
    IN  rows(Num(1), Num(0), Num(0),
             Num(0), c, Neg(s),
             Num(0), s, c)

rotation_y(radians) ==
    LET c == cosT(radians)
        s == sinT(radians)
    IN  rows(c, Num(0), s,
             Num(0), Num(1), Num(0),
             Neg(s), Num(0), c)

rotation_z(radians) ==
    LET c == cosT(radians)
        s == sinT(radians)
    IN  rows(c, Neg(s), Num(0),
             s, c, Num(0),
             Num(0), Num(0), Num(1))

(***************************************************************************)
(* Inputs.                                                                 *)
(***************************************************************************)
Scalars == { Num(k) : k \in (0 - MaxVal)..MaxVal }

\* argument lists of columns(...) and rows(...), contents of buffers
InputTuples ==
    { <<Num(1), Num(2), Num(3), Num(4), Num(5), Num(6), Num(7), Num(8), Num(9)>>,
      <<Num(2), Num(0), Num(1), Num(1), Num(1), Num(0), Num(0), Num(3), Num(1)>>,
      <<Num(1), Num(0), Num(0), Num(0), Num(1), Num(0), Num(0), Num(0), Num(1)>> }

\* a pointer to scalars: the buffer it points to, or <<>> for nullptr
NULL == <<>>
Pointers == { NULL } \cup InputTuples

\* right-hand operands of the binary operations
Operands ==
    { identity,
      columns(Num(2), Num(0), Num(1), Num(1), Num(1), Num(0), Num(0), Num(3), Num(1)) }

\* arguments of rotation_vectors
InputVectors ==
    { coord(Num(1), Num(0), Num(0)), coord(Num(0 - 1), Num(0), Num(0)),
      coord(Num(0), Num(1), Num(0)), coord(Num(0), Num(0), Num(0 - 1)),
      coord(Rat(3, 5), Rat(4, 5), Num(0)), coord(Rat(0 - 3, 5), Rat(0 - 4, 5), Num(0)),
      coord(Num(0), Num(0), Num(2)) }

\* angles: the points <<cos, sin>> of the unit circle with coordinates in fifths
Angles ==
    { <<Rat(a, 5), Rat(b, 5)>> : a \in (0 - 5)..5, b \in (0 - 5)..5 } \cap
    { r \in { <<Rat(a, 5), Rat(b, 5)>> : a \in (0 - 5)..5, b \in (0 - 5)..5 } :
          Add(sq(r[1]), sq(r[2])) = Num(1) }
ZeroAngle == <<Num(1), Num(0)>>

\* arguments of rotation_axis: axes whose normalisation is exact in value_type
Axes ==
    { unit_x, NegV(unit_x), coord(Num(0), Num(1), Num(0)), coord(Num(0), Num(0), Num(1)),
      coord(Num(2), Num(0), Num(0)), coord(Num(0), Num(0 - 3), Num(0)), coord(Num(0), Num(0), Num(2)) }

\* arguments of scaling(vector3)
ScaleVectors == { coord(x, x, y) : x \in Scalars, y \in Scalars }

\* what a read through an invalid pointer may yield
Garbage == { Num(0), NaN }

(***************************************************************************)
(* State.                                                                  *)
(***************************************************************************)
VARIABLES
    mat,      \* the value of the matrix object, <<>> while there is none
    prev,     \* its value before the last operation
    op,       \* the last operation
    arg,      \* the arguments of the last operation
    ret,      \* what the last operation returned
    diag,     \* severities of the assertions the last operation failed
    vec,      \* the vector obtained last: an attached view or a copy
    status,   \* "new", "live", "detached" (no object), "aborted"
    n         \* number of operations applied since construction

vars == <<mat, prev, op, arg, ret, diag, vec, status, n>>

NoArg ==
    [i |-> 0, j |-> 0, s |-> Num(0), m |-> <<>>, alias |-> FALSE, v |-> <<>>, w |-> <<>>,
     radians |-> <<>>]
NoRet == [s |-> Num(0), m |-> <<>>, v |-> <<>>, p |-> 0 - 1]
NoVec == [kind |-> "none", addr |-> 0 - 1, from |-> 0 - 1, val |-> <<>>]

Init ==
    /\ mat = <<>>
    /\ prev = <<>>
    /\ op = "new"
    /\ arg = NoArg
    /\ ret = NoRet
    /\ diag = {}
    /\ vec = NoVec
    /\ status = "new"
    /\ n = 0

\* a named constructor initialises the object
Construct(o, a, value, d) ==
    /\ status = "new"
    /\ mat' = value
    /\ prev' = mat
    /\ op' = o
    /\ arg' = a
    /\ ret' = NoRet
    /\ diag' = d
    /\ status' = "live"
    /\ UNCHANGED <<vec, n>>

\* the finite elements of a stay within the range of the model
InRange(a) ==
    \A k \in 1..9 : IsFiniteS(a[k]) => AbsInt(a[k][1]) <= MaxMag /\ a[k][2] <= MaxMag

\* a member function changes the object
Mutate(o, a, value, r, d) ==
    /\ status = "live"
    /\ n < MaxOps
    /\ mat' = value
    /\ InRange(mat')
    /\ prev' = mat
    /\ op' = o
    /\ arg' = a
    /\ ret' = r
    /\ diag' = d
    /\ n' = n + 1
    /\ UNCHANGED <<vec, status>>

(***************************************************************************)
(* Named constructors.                                                     *)
(***************************************************************************)
Columns ==
    \E t \in InputTuples :
        Construct("columns", [NoArg EXCEPT !.m = t],
                  columns(t[1], t[2], t[3], t[4], t[5], t[6], t[7], t[8], t[9]), {})

Rows ==
    \E t \in InputTuples :
        Construct("rows", [NoArg EXCEPT !.m = t],
                  rows(t[1], t[2], t[3], t[4], t[5], t[6], t[7], t[8], t[9]), {})

Uniform == \E s \in Scalars : Construct("uniform", [NoArg EXCEPT !.s = s], uniform(s), {})

Zero == Construct("zero", NoArg, zero, {})

Identity == Construct("identity", NoArg, identity, {})

\* from_ptr(ptr): a null ptr fails the critical assertion and the program
\* stops, at the assertion or at the read through the null pointer
FromPtr ==
    \E ptr \in Pointers :
        IF ptr # NULL
        THEN Construct("from_ptr", [NoArg EXCEPT !.m = ptr], from_ptr(ptr), from_ptrDiag(ptr))
        ELSE /\ status = "new"
             /\ status' = "aborted"
             /\ prev' = mat
             /\ op' = "from_ptr"
             /\ arg' = [NoArg EXCEPT !.m = ptr]
             /\ ret' = NoRet
             /\ diag' = from_ptrDiag(ptr)
             /\ UNCHANGED <<mat, vec, n>>

ScalingUniform ==
    \E s \in Scalars :
        Construct("scaling_uniform", [NoArg EXCEPT !.s = s], scaling_uniform(s), scaling_uniformDiag(s))

Scaling ==
    \E x \in Scalars, y \in Scalars, z \in Scalars :
        Construct("scaling", [NoArg EXCEPT !.v = coord(x, y, z)], scaling(x, y, z), scalingDiag(x, y, z))

ScalingVector3 ==
    \E s \in ScaleVectors :
        Construct("scaling_vector3", [NoArg EXCEPT !.v = s], scaling_vector3(s), scaling_vector3Diag(s))

RotationVectors ==
    /\ status = "new"
    /\ \E src \in InputVectors, target \in InputVectors :
        /\ IsSquare(length_sq(cross(src, target)))
        /\ LtS(Num(1), AbsS(dot(src, target))) \/ IsSquare(Sub(Num(1), sq(dot(src, target))))
        /\ \E orth \in Orthogonals(src) :
              /\ IsSquare(length_sq(orth))
              /\ Construct("rotation_vectors",
                           [NoArg EXCEPT !.v = src, !.w = target, !.m = orth],
                           rotation_vectors(src, target, orth),
                           rotation_vectorsDiag(src, target))

\* attach_to_ptr(ptr): the matrix occupying the buffer; a null ptr fails a
\* "bad" assertion and yields a reference to no object
AttachToPtr ==
    \E ptr \in Pointers :
        /\ status = "new"
        /\ mat' = ptr
        /\ prev' = mat
        /\ op' = "attach_to_ptr"
        /\ arg' = [NoArg EXCEPT !.m = ptr]
        /\ ret' = [NoRet EXCEPT !.p = IF ptr = NULL THEN 0 - 1 ELSE 0]
        /\ diag' = attach_to_ptrDiag(ptr)
        /\ status' = IF ptr # NULL THEN "live" ELSE "detached"
        /\ UNCHANGED <<vec, n>>

\* attach_to_array(ptr): as above, but a null ptr only warns and the null
\* pointer is returned
AttachToArray ==
    \E ptr \in Pointers :
        /\ status = "new"
        /\ mat' = ptr
        /\ prev' = mat
        /\ op' = "attach_to_array"
        /\ arg' = [NoArg EXCEPT !.m = ptr]
        /\ ret' = [NoRet EXCEPT !.p = IF ptr = NULL THEN 0 - 1 ELSE 0]
        /\ diag' = attach_to_arrayDiag(ptr)
        /\ status' = IF ptr # NULL THEN "live" ELSE "detached"
        /\ UNCHANGED <<vec, n>>

(***************************************************************************)
(* Arithmetic members.                                                     *)
(***************************************************************************)
OpAddAssign ==
    \E b \in Operands : Mutate("+=", [NoArg EXCEPT !.m = b], AddAssign(mat, b), NoRet, {})

OpSubAssign ==
    \E b \in Operands : Mutate("-=", [NoArg EXCEPT !.m = b], SubAssign(mat, b), NoRet, {})

OpMulAssignS ==
    \E s \in Scalars : Mutate("*=s", [NoArg EXCEPT !.s = s], MulAssignS(mat, s), NoRet, {})

OpDivAssignS ==
    \E s \in Scalars :
        Mutate("/=s", [NoArg EXCEPT !.s = s], DivAssignS(mat, s), [NoRet EXCEPT !.p = 0],
               DivAssignSDiag(s))

\* A *= B for another matrix B, and A *= A
OpMulAssignM ==
    \/ \E b \in Operands :
          Mutate("*=", [NoArg EXCEPT !.m = b], MulAssignM(mat, b, FALSE), NoRet, {})
    \/ Mutate("*=", [NoArg EXCEPT !.m = mat, !.alias = TRUE], MulAssignM(mat, mat, TRUE), NoRet, {})

OpMul ==
    \E b \in Operands : Mutate("mul", [NoArg EXCEPT !.m = b], mul(mat, b), NoRet, {})

OpDiv ==
    \E b \in Operands : Mutate("div", [NoArg EXCEPT !.m = b], div(mat, b), NoRet, {})

OpTranspose == Mutate("transpose", NoArg, transpose(mat), NoRet, {})

OpInverse ==
    LET r == inverseMember(mat)
    IN  Mutate("inverse", NoArg, r.m, [NoRet EXCEPT !.s = r.det], {})

(***************************************************************************)
(* Non-mutating functions applied to the object.                           *)
(***************************************************************************)
\* a const member or free function: the object keeps its value.  A failed
\* critical assertion stops the program unless assertions are compiled out.
Query(o, a, r, d) ==
    /\ status = "live"
    /\ UNCHANGED <<mat, vec, n>>
    /\ prev' = mat
    /\ op' = o
    /\ arg' = a
    /\ ret' = r
    /\ diag' = d
    /\ \/ status' = "live"
       \/ "crit" \in d /\ status' = "aborted"

\* mat * b and b * mat
OpTimes ==
    \E b \in Operands :
        \/ Query("a*b", [NoArg EXCEPT !.m = b], [NoRet EXCEPT !.m = MulMM(mat, b)], {})
        \/ Query("b*a", [NoArg EXCEPT !.m = b], [NoRet EXCEPT !.m = MulMM(b, mat)], {})

\* inverse(mat, out_determinant)
OpInverseFree ==
    LET r == inverse(mat)
    IN  Query("inverse(a)", NoArg, [NoRet EXCEPT !.m = r.m, !.s = r.det], {})

OpDeterminant == Query("determinant", NoArg, [NoRet EXCEPT !.s = determinant(mat)], {})

Next ==
    \/ Columns \/ Rows \/ Uniform \/ Zero \/ Identity \/ FromPtr
    \/ ScalingUniform \/ Scaling \/ ScalingVector3 \/ RotationVectors
    \/ AttachToPtr \/ AttachToArray
    \/ OpAddAssign \/ OpSubAssign \/ OpMulAssignS \/ OpDivAssignS
    \/ OpMulAssignM \/ OpMul \/ OpDiv \/ OpTranspose \/ OpInverse
    \/ OpTimes \/ OpInverseFree \/ OpDeterminant

Spec == Init /\ [][Next]_vars

(***************************************************************************)
(* Element access, on a matrix built from one of the input tuples.         *)
(***************************************************************************)
InitLive ==
    /\ mat \in InputTuples
    /\ prev = <<>>
    /\ op = "columns"
    /\ arg = [NoArg EXCEPT !.m = mat]
    /\ ret = NoRet
    /\ diag = {}
    /\ vec = NoVec
    /\ status = "live"
    /\ n = 0

Indices == 0..MaxIndex
Coords == 0..columns_count

\* at(i): returns the reference data()[i]
At ==
    \E i \in Indices, g \in Garbage :
        Query("at", [NoArg EXCEPT !.i = i], [NoRet EXCEPT !.p = i, !.s = Load(mat, i, g)], atDiag(i))

\* operator[](i): calls at(i)
Subscript ==
    \E i \in Indices, g \in Garbage :
        Query("[]", [NoArg EXCEPT !.i = i], [NoRet EXCEPT !.p = i, !.s = Load(mat, i, g)], atDiag(i))

\* front(): at(0)
Front ==
    Query("front", NoArg, [NoRet EXCEPT !.p = 0, !.s = Load(mat, 0, NaN)], atDiag(0))

\* back(): at(value_count - 1)
Back ==
    Query("back", NoArg,
          [NoRet EXCEPT !.p = value_count - 1, !.s = Load(mat, value_count - 1, NaN)],
          atDiag(value_count - 1))

\* column(i): returns the pointer data() + rows_count * i
Column ==
    \E i \in Indices :
        Query("column", [NoArg EXCEPT !.i = i], [NoRet EXCEPT !.p = column(i)], columnDiag(i))

\* m(row, col): column(col)[row]
M ==
    \E row \in Coords, col \in Coords, g \in Garbage :
        Query("m", [NoArg EXCEPT !.i = row, !.j = col],
              [NoRet EXCEPT !.p = mAddr(row, col), !.s = m(mat, row, col, g)], columnDiag(col))

\* operator()(row, col): calls m(row, col)
Call ==
    \E row \in Coords, col \in Coords, g \in Garbage :
        Query("()", [NoArg EXCEPT !.i = row, !.j = col],
              [NoRet EXCEPT !.p = mAddr(row, col), !.s = m(mat, row, col, g)], columnDiag(col))

NextAccess == At \/ Subscript \/ Front \/ Back \/ Column \/ M \/ Call

SpecAccess == InitLive /\ [][NextAccess]_vars

(***************************************************************************)
(* Vectors taken out of the matrix: column_vector attaches a vector to the *)
(* column's storage, row_vector and main_diagonal return a new vector.     *)
(***************************************************************************)
\* obtaining a vector leaves the object alone
Obtain(o, a, v, d) ==
    /\ status = "live"
    /\ UNCHANGED <<mat, n>>
    /\ prev' = mat
    /\ op' = o
    /\ arg' = a
    /\ ret' = NoRet
    /\ diag' = d
    /\ vec' = v
    /\ \/ status' = "live"
       \/ "crit" \in d /\ status' = "aborted"

\* column_vector(col): vector3_t::attach_to_ptr(column(col))
ColumnVector ==
    \E col \in Coords :
        Obtain("column_vector", [NoArg EXCEPT !.j = col], column_vector(col), columnDiag(col))

\* row_vector(row): coord(m(row, 0), m(row, 1), m(row, 2)), by value
RowVector ==
    \E row \in Coords, g \in Garbage :
        Obtain("row_vector", [NoArg EXCEPT !.i = row],
               [kind |-> "copy", addr |-> 0 - 1, from |-> row, val |-> row_vector(mat, row, g)], {})

\* main_diagonal(): coord(m(0, 0), m(1, 1), m(2, 2)), by value
MainDiagonal ==
    Obtain("main_diagonal", NoArg,
           [kind |-> "copy", addr |-> 0 - 1, from |-> 0 - 1, val |-> main_diagonal(mat, NaN)], {})

\* the value of component k of the vector obtained last
VecRead(k) == IF vec.kind = "view" THEN Load(mat, vec.addr + k, NaN) ELSE vec.val[k + 1]

\* v.at(k) = x on the vector obtained last
VecWrite ==
    \E k \in 0..2, x \in Scalars :
        /\ status = "live"
        /\ n < MaxOps
        /\ vec.kind # "none"
        /\ IF vec.kind = "view"
           THEN mat' = Store(mat, vec.addr + k, x) /\ vec' = vec
           ELSE mat' = mat /\ vec' = [vec EXCEPT !.val[k + 1] = x]
        /\ prev' = mat
        /\ op' = "vec_write"
        /\ arg' = [NoArg EXCEPT !.i = k, !.s = x, !.v = vec.val]
        /\ ret' = NoRet
        /\ diag' = {}
        /\ n' = n + 1
        /\ UNCHANGED status

NextView ==
    \/ ColumnVector \/ RowVector \/ MainDiagonal \/ VecWrite
    \/ OpTranspose \/ OpMulAssignS

SpecView == InitLive /\ [][NextView]_vars

(***************************************************************************)
(* Rotation constructors, evaluated in value_type arithmetic.              *)
(***************************************************************************)
RotationAxis ==
    \E axis \in Axes, radians \in Angles :
        Construct("rotation_axis", [NoArg EXCEPT !.v = axis, !.radians = radians],
                  rotation_axis(axis, radians), rotation_naxisDiag(normalize(axis)))

RotationX ==
    \E radians \in Angles :
        Construct("rotation_x", [NoArg EXCEPT !.radians = radians], rotation_x(radians), {})

RotationY ==
    \E radians \in Angles :
        Construct("rotation_y", [NoArg EXCEPT !.radians = radians], rotation_y(radians), {})

RotationZ ==
    \E radians \in Angles :
        Construct("rotation_z", [NoArg EXCEPT !.radians = radians], rotation_z(radians), {})

NextRot == RotationAxis \/ RotationX \/ RotationY \/ RotationZ

SpecRot == Init /\ [][NextRot]_vars

(***************************************************************************)
(* Properties.                                                             *)
(***************************************************************************)
Rng == 0..2

\* the matrix product as linear algebra defines it: element (r, c) is the
\* sum over k of a(r, k) * b(k, c)
IsProduct(p, a, b) ==
    \A r \in Rng, c \in Rng :
        m(p, r, c, NaN) = Dot3(m(a, r, 0, NaN), m(b, 0, c, NaN),
                               m(a, r, 1, NaN), m(b, 1, c, NaN),
                               m(a, r, 2, NaN), m(b, 2, c, NaN))

IdentityProduct == op \in {"a*b", "b*a"} /\ arg.m = identity

\* C1 as stated: for EVERY matrix A, A * identity() == A and
\* identity() * A == A under operator==
C1_EveryMatrix == IdentityProduct => EqM(ret.m, mat)

\* C1: for every matrix A whose nine elements are all finite,
\* A * identity() == A and identity() * A == A under operator==, and
\* identity() has 1 on the diagonal and 0 elsewhere
C1_FiniteIdentityProduct ==
    /\ \A r \in Rng, c \in Rng : m(identity, r, c, NaN) = IF r = c THEN Num(1) ELSE Num(0)
    /\ (IdentityProduct /\ isfinite(mat)) => EqM(ret.m, mat)

C1_Witness ==
    /\ op = "b*a" /\ arg.m = identity
    /\ isfinite(mat) /\ mat # transpose(mat) /\ mat # zero

\* A is a matrix of numbers with a determinant away from zero
Invertible(a) == isfinite(a) /\ ~close(determinant(a), Num(0), EPSILON)

C3_MemberInverseMatchesFree ==
    /\ op = "inverse" =>
          /\ mat = inverse(prev).m
          /\ ret.s = determinant(prev)
          /\ ret.s = inverse(prev).det
          /\ EqS(ret.s, Num(0)) => \A k \in 1..9 : ~IsFiniteS(mat[k])
    /\ (op = "inverse(a)" /\ EqS(ret.s, Num(0))) => \A k \in 1..9 : ~IsFiniteS(ret.m[k])

C3_Witness ==
    /\ op = "inverse" /\ isfinite(prev) /\ EqS(ret.s, Num(0))
    /\ prev # zero /\ \E k \in 1..9 : mat[k] = PInf

\* C4: after A *= B the matrix holds the product of its value before the
\* call and B, which is what A * B returns, also when B is A itself
C4_MulAssignIsProduct ==
    op = "*=" =>
        LET B == IF arg.alias THEN prev ELSE arg.m
        IN  /\ mat = MulMM(prev, B)
            /\ IsProduct(mat, prev, B)

C4_Witness ==
    /\ op = "*=" /\ arg.alias
    /\ isfinite(prev) /\ prev # transpose(prev) /\ mat # prev

\* C5: the storage is column-major: for row r and column c in 0..2,
\* m(r, c) is column(c)[r] and is the element at(3*c + r); columns(v0..v8)
\* stores v_k at flat index k, rows(r00..r22) yields m(i, j) = r_ij, so that
\* rows(args) is the transpose of columns(args) and rows(1,2,...,9) has
\* m(0, 1) = 2 and m(1, 0) = 4
C5_ColumnMajor ==
    status = "live" =>
        /\ \A r \in Rng, c \in Rng :
              /\ mAddr(r, c) = 3 * c + r
              /\ mAddr(r, c) = column(c) + r
              /\ m(mat, r, c, NaN) = Load(mat, 3 * c + r, NaN)
        /\ op = "columns" => \A k \in 0..8 : Load(mat, k, NaN) = arg.m[k + 1]
        /\ op = "rows" =>
              LET t == arg.m
              IN  /\ \A i \in Rng, j \in Rng : m(mat, i, j, NaN) = t[3 * i + j + 1]
                  /\ mat = transpose(columns(t[1], t[2], t[3], t[4], t[5], t[6], t[7], t[8], t[9]))
                  /\ (\A k \in 1..9 : t[k] = Num(k)) =>
                        m(mat, 0, 1, NaN) = Num(2) /\ m(mat, 1, 0, NaN) = Num(4)

C5_Witness ==
    /\ op = "rows" /\ status = "live"
    /\ \A k \in 1..9 : arg.m[k] = Num(k)
    /\ m(mat, 1, 0, NaN) = Num(4)

C7_BoundsChecked ==
    /\ op \in {"at", "[]"} =>
          /\ arg.i >= 9 => "crit" \in diag
          /\ arg.i < 9 => diag = {} /\ status = "live" /\ ret.p = arg.i /\ ret.s = mat[arg.i + 1]
    /\ op = "column" =>
          /\ arg.i >= 3 => "crit" \in diag
          /\ arg.i < 3 => diag = {} /\ status = "live" /\ ret.p = 3 * arg.i
    /\ op = "front" => diag = {} /\ status = "live" /\ ret.p = 0 /\ ret.s = mat[1]
    /\ op = "back" => diag = {} /\ status = "live" /\ ret.p = 8 /\ ret.s = mat[9]

C7_Witness == op = "at" /\ arg.i = 9 /\ "crit" \in diag /\ status = "aborted"

NullAttach(o) == op = o /\ arg.m = NULL

\* C8 as stated: from_ptr and attach_to_ptr on a null buffer both fail a
\* CRITICAL assertion; attach_to_array on a null buffer only warns and
\* returns a null pointer
C8_NullIsCritical ==
    /\ NullAttach("from_ptr") => "crit" \in diag
    /\ NullAttach("attach_to_ptr") => "crit" \in diag
    /\ NullAttach("attach_to_array") => diag = {"warn"} /\ ret.p = 0 - 1 /\ status # "aborted"

\* C8: from_ptr on a null buffer fails a critical assertion; attach_to_ptr
\* on a null buffer fails an assertion of severity "bad", not a critical
\* one; attach_to_array on a null buffer only warns and returns a null
\* pointer
C8_NullSeverities ==
    /\ NullAttach("from_ptr") => diag = {"crit"} /\ status = "aborted"
    /\ NullAttach("attach_to_ptr") => diag = {"bad"} /\ status # "aborted"
    /\ NullAttach("attach_to_array") => diag = {"warn"} /\ ret.p = 0 - 1 /\ status # "aborted"

C8_Witness == NullAttach("attach_to_ptr") /\ diag = {"bad"}

Mutations == {"transpose", "*=s"}

\* C9 (states): a write to component k of the vector column_vector(i)
\* returned changes element m(k, i), at flat index 3*i + k, and no other
\* element; the view shows the current elements of column i after any
\* mutation; a write to the vector row_vector or main_diagonal returned
\* changes no element
C9_ViewAndCopyStates ==
    /\ (op = "vec_write" /\ vec.kind = "view" /\ vec.from < 3) =>
          /\ m(mat, arg.i, vec.from, NaN) = arg.s
          /\ \A k \in 0..8 :
                Load(mat, k, NaN) = IF k = 3 * vec.from + arg.i THEN arg.s ELSE Load(prev, k, NaN)
    /\ (vec.kind = "view" /\ vec.from < 3 /\ status = "live") =>
          \A k \in Rng : VecRead(k) = m(mat, k, vec.from, NaN)
    /\ (op = "vec_write" /\ vec.kind = "copy") =>
          /\ mat = prev
          /\ vec.val[arg.i + 1] = arg.s

\* C9 (steps): a mutation of the matrix does not change the vector
\* row_vector or main_diagonal returned
C9_CopySteps == (vec.kind = "copy" /\ op' \in Mutations) => vec' = vec

\* C9: column_vector(i) is an aliasing view and row_vector(r) and
\* main_diagonal() are copies
C9_ViewAliasesCopyDoesNot == [](C9_ViewAndCopyStates) /\ [][C9_CopySteps]_vars

C9_Witness ==
    /\ op = "vec_write" /\ vec.kind = "view" /\ vec.from = 1 /\ arg.i = 2
    /\ mat # prev

\* the matrix-vector product R * v
MulMV(R, v) ==
    coord(Dot3(m(R, 0, 0, NaN), v[1], m(R, 0, 1, NaN), v[2], m(R, 0, 2, NaN), v[3]),
          Dot3(m(R, 1, 0, NaN), v[1], m(R, 1, 1, NaN), v[2], m(R, 1, 2, NaN), v[3]),
          Dot3(m(R, 2, 0, NaN), v[1], m(R, 2, 1, NaN), v[2], m(R, 2, 2, NaN), v[3]))

\* C10: rotation_vectors(src, target) is rotation_naxis(normalized cross,
\* acos(dot)) when the length of cross(src, target) exceeds epsilon, is
\* identity() when it does not and src is close to target, and for
\* opposite normalized vectors is R = 2*o(x)o - I for a unit vector o
\* orthogonal to src, with R * src = -src and determinant(R) = 1
C10_RotationVectorsCases ==
    op = "rotation_vectors" =>
        LET src == arg.v
            target == arg.w
            axis == cross(src, target)
            o == normalize(arg.m)
        IN  /\ LtS(EPSILON, length(axis)) =>
                  mat = rotation_naxis(normalize(axis), acos(dot(src, target)))
            /\ (~LtS(EPSILON, length(axis)) /\ closeV(src, target)) => mat = identity
            /\ (is_normalized(src) /\ src = target) => mat = identity
            /\ (is_normalized(src) /\ target = NegV(src)) =>
                  /\ dot(o, src) = Num(0) /\ length_sq(o) = Num(1)
                  /\ \A r \in Rng, c \in Rng :
                        m(mat, r, c, NaN) =
                            Sub(Mul(Num(2), Mul(o[r + 1], o[c + 1])), IF r = c THEN Num(1) ELSE Num(0))
                  /\ MulMV(mat, src) = NegV(src)
                  /\ determinant(mat) = Num(1)

C10_Witness ==
    /\ op = "rotation_vectors"
    /\ arg.v = coord(Rat(3, 5), Rat(4, 5), Num(0))
    /\ arg.w = NegV(arg.v)
    /\ mat # transpose(Negate(identity))

AxisAngleAroundX == op = "rotation_axis" /\ arg.v = unit_x
ElementaryAtZero == op \in {"rotation_x", "rotation_y", "rotation_z"} /\ arg.radians = ZeroAngle

\* C11 as stated: for any angle, rotation_axis(unit_x, angle) ==
\* rotation_x(angle) element for element, and rotation_x(0), rotation_y(0)
\* and rotation_z(0) each equal identity()
C11_AxisXEqualsRotationX ==
    /\ AxisAngleAroundX => EqM(mat, rotation_x(arg.radians))
    /\ ElementaryAtZero => EqM(mat, identity)

\* C11: for any angle, rotation_axis(unit_x, angle) has the eight elements
\* of rotation_x(angle) other than m(0,0) exactly, and its m(0,0), computed
\* as c + (1 - c), is within one machine epsilon of 1; rotation_x(0),
\* rotation_y(0) and rotation_z(0) each equal identity()
C11_AxisXMatchesUpToRounding ==
    /\ AxisAngleAroundX =>
          /\ \A k \in 2..9 : EqS(mat[k], rotation_x(arg.radians)[k])
          /\ mat[1] = AddT(cosT(arg.radians), SubT(Num(1), cosT(arg.radians)))
          /\ ~LtS(MachineEpsilon, AbsS(Sub(mat[1], Num(1))))
    /\ ElementaryAtZero => EqM(mat, identity)

C11_Witness == AxisAngleAroundX /\ arg.radians = <<Rat(0 - 4, 5), Rat(3, 5)>> /\ mat[1] # Num(1)

\* the diagonal matrix with x, y, z on the diagonal and 0 elsewhere
IsDiagonal(a, x, y, z) ==
    \A r \in Rng, c \in Rng :
        m(a, r, c, NaN) = IF r = c THEN coord(x, y, z)[r + 1] ELSE Num(0)

\* x / 0 as IEEE arithmetic defines it
OverZero(x) ==
    IF x = NaN \/ x = Num(0) THEN NaN
    ELSE IF x = NInf \/ (IsFiniteS(x) /\ x[1] < 0) THEN NInf ELSE PInf

\* C12: a warning has no control-flow effect: scaling_uniform(s),
\* scaling(x,y,z) and scaling(vector3) warn exactly when a factor is close
\* to zero and always return the diagonal matrix of the requested factors;
\* operator/=(s) warns when s == 0 and still divides all nine elements by
\* s and returns the matrix
C12_WarningsHaveNoEffect ==
    /\ op = "scaling_uniform" =>
          /\ IsDiagonal(mat, arg.s, arg.s, arg.s)
          /\ diag = (IF EqS(arg.s, Num(0)) THEN {"warn"} ELSE {})
          /\ status = "live"
    /\ op \in {"scaling", "scaling_vector3"} =>
          /\ IsDiagonal(mat, arg.v[1], arg.v[2], arg.v[3])
          /\ diag = (IF \E k \in 1..3 : EqS(arg.v[k], Num(0)) THEN {"warn"} ELSE {})
          /\ status = "live"
    /\ op = "/=s" =>
          /\ \A k \in 1..9 : mat[k] = Div(prev[k], arg.s)
          /\ EqS(arg.s, Num(0)) =>
                /\ diag = {"warn"}
                /\ \A k \in 1..9 : mat[k] = OverZero(prev[k])
          /\ NeS(arg.s, Num(0)) => diag = {}
          /\ ret.p = 0
          /\ status = "live"

C12_Witness ==
    /\ op = "/=s" /\ EqS(arg.s, Num(0)) /\ diag = {"warn"}
    /\ prev = columns(Num(1), Num(2), Num(3), Num(4), Num(5), Num(6), Num(7), Num(8), Num(9))
    /\ mat = uniform(PInf)

\* C13: m(row, col) and operator()(row, col) return the element at flat
\* index 3*col + row when row and col are in 0..2, and an access with
\* row > 2 or col > 2 fails a critical assertion
C13_TwoDimAccessChecked ==
    op \in {"m", "()"} =>
        /\ (arg.i <= 2 /\ arg.j <= 2) =>
              /\ diag = {} /\ status = "live"
              /\ ret.p = 3 * arg.j + arg.i
              /\ ret.s = mat[3 * arg.j + arg.i + 1]
        /\ (arg.i > 2 \/ arg.j > 2) => "crit" \in diag

=============================================================================
